---- MODULE Spec2Model ----
(***************************************************************************)
(* pyhanko.pdf_utils.content: PDF resource dictionaries (PdfResources),    *)
(* content fragments (PdfContent) and the raw pass-through fragment        *)
(* (RawContent).                                                           *)
(*                                                                         *)
(* A DictionaryObject is a Python dict, which iterates in insertion order: *)
(* it is modelled as a sequence of <<key, value>> pairs with unique keys.  *)
(* A bytes object is a sequence of numbers in 0..255.                      *)
(***************************************************************************)
EXTENDS Naturals, Sequences, FiniteSets

\* ------------------------------------------------------------------ bounds

\* Largest number of entries the two resource dictionaries hold together.
MaxEntries == 4
\* The same, while the history of merges is recorded.
MaxEntriesHist == 3
\* The same, while the fragment-level operations are explored.
MaxEntriesFrag == 2
\* Largest number of objects the caller registers with the writer.
MaxRegistered == 1

\* ------------------------------------------------------------- enumeration

\* class ResourceType(Enum): the members in definition order, which is the
\* order in which `for k in ResourceType` visits them.
ResourceType ==
    << [name |-> "EXT_G_STATE", value |-> "/ExtGState"],
       [name |-> "COLOR_SPACE", value |-> "/ColorSpace"],
       [name |-> "PATTERN",     value |-> "/Pattern"],
       [name |-> "SHADING",     value |-> "/Shading"],
       [name |-> "XOBJECT",     value |-> "/XObject"],
       [name |-> "FONT",        value |-> "/Font"],
       [name |-> "PROPERTIES",  value |-> "/Properties"] >>

Categories == DOMAIN ResourceType

\* item.name.lower(): the attribute of PdfResources a member is stored under.
lower(name) ==
    CASE name = "EXT_G_STATE" -> "ext_g_state"
      [] name = "COLOR_SPACE" -> "color_space"
      [] name = "PATTERN"     -> "pattern"
      [] name = "SHADING"     -> "shading"
      [] name = "XOBJECT"     -> "xobject"
      [] name = "FONT"        -> "font"
      [] name = "PROPERTIES"  -> "properties"

\* ------------------------------------------------------------------ inputs

\* Resource names and resource values handed to set_resource.
Names == {"/N1", "/N2"}
Values == {"obj1", "obj2"}
\* Categories handed to set_resource: Pattern and Font.
InputCategories == {3, 6}
\* Byte buffers a RawContent is built from ("" and "q Q").
Buffers == { <<>>, <<113, 32, 81>> }
\* Bounding boxes a fragment is built with.
Boxes == { [width |-> 100, height |-> 50], [width |-> 0, height |-> 7] }
\* Writers a fragment can be bound to.
Writers == {"None", "writer"}

\* The two PdfResources objects: 1 is owned by the fragment, 2 stands alone.
Res == {1, 2}

\* ------------------------------------------------------- DictionaryObject

dict_keys(d) == { d[i][1] : i \in DOMAIN d }

dict_entries(d) == { d[i] : i \in DOMAIN d }

\* k in d
dict_contains(d, k) == k \in dict_keys(d)

\* d[k] = v on a variant that never replaces a value already there.
dict_setdefault(d, k, v) ==
    IF k \in dict_keys(d) THEN d ELSE Append(d, <<k, v>>)

\* d[k] = v: a new key goes last, a key already there keeps its place.
dict_setitem(d, k, v) ==
    IF dict_contains(d, k)
    THEN [i \in DOMAIN d |-> IF d[i][1] = k THEN <<k, v>> ELSE d[i]]
    ELSE Append(d, <<k, v>>)

\* ------------------------------------------------------------ PdfResources

\* PdfResources.__init__
PdfResources_init ==
    [ext_g_state |-> <<>>, color_space |-> <<>>, pattern |-> <<>>,
     shading |-> <<>>, xobject |-> <<>>, font |-> <<>>, properties |-> <<>>]

\* PdfResources.__getitem__
__getitem__(self, item) == self[lower(item.name)]

NoException == [type |-> "None", args |-> <<>>]

\* ResourceManagementError(f"Resource with name {k} occurs in both
\* dictionaries."): the message as its literal and interpolated parts.
ResourceManagementError(k) ==
    [type |-> "ResourceManagementError",
     args |-> << "Resource with name ", k, " occurs in both dictionaries." >>]

RECURSIVE merge_items(_, _, _)
\* The loop of _res_merge_helper from item i of dict2 on.
merge_items(dict1, dict2, i) ==
    IF i > Len(dict2)
    THEN [dict1 |-> dict1, exc |-> NoException]
    ELSE LET k == dict2[i][1]
             v2 == dict2[i][2]
         IN  IF dict_contains(dict1, k)
             THEN [dict1 |-> dict1, exc |-> ResourceManagementError(k)]
             ELSE merge_items(dict_setitem(dict1, k, v2), dict2, i + 1)

RECURSIVE merge_items_overwriting(_, _, _)
\* A loop that replaces instead of raising.
merge_items_overwriting(dict1, dict2, i) ==
    IF i > Len(dict2)
    THEN [dict1 |-> dict1, exc |-> NoException]
    ELSE merge_items_overwriting(
             dict_setitem(dict1, dict2[i][1], dict2[i][2]), dict2, i + 1)

\* A helper that overwrites colliding names.
_res_merge_helper_overwriting(dict1, dict2) ==
    merge_items_overwriting(dict1, dict2, 1)

\* A helper that looks for a collision before it inserts anything.
_res_merge_helper_prechecked(dict1, dict2) ==
    LET r == merge_items(dict1, dict2, 1)
    IN  IF r.exc = NoException THEN r ELSE [dict1 |-> dict1, exc |-> r.exc]

\* A helper that inserts every value but the last one of dict2.
_res_merge_helper_short(dict1, dict2) ==
    IF dict2 = <<>>
    THEN [dict1 |-> dict1, exc |-> NoException]
    ELSE merge_items(dict1, SubSeq(dict2, 1, Len(dict2) - 1), 1)

\* _res_merge_helper(dict1, dict2).  When dict1 and dict2 are one object the
\* first key visited is found in dict1, so nothing is inserted while the
\* items are being visited.
_res_merge_helper(dict1, dict2) == merge_items(dict1, dict2, 1)

RECURSIVE iadd_loop(_, _, _, _)
\* The loop of PdfResources.__iadd__ from category i on, on the heap of
\* PdfResources objects: self and other are references, and may be equal.
iadd_loop(heap, self, other, i) ==
    IF i > Len(ResourceType)
    THEN [heap |-> heap, exc |-> NoException]
    ELSE LET k == ResourceType[i]
             r == _res_merge_helper(__getitem__(heap[self], k),
                                    __getitem__(heap[other], k))
             heap2 == [heap EXCEPT ![self][lower(k.name)] = r.dict1]
         IN  IF r.exc # NoException
             THEN [heap |-> heap2, exc |-> r.exc]
             ELSE iadd_loop(heap2, self, other, i + 1)

\* A merge that undoes what it did when it fails.
iadd_atomic(heap, self, other) ==
    LET r == iadd_loop(heap, self, other, 1)
    IN  IF r.exc = NoException THEN r ELSE [heap |-> heap, exc |-> r.exc]

\* PdfResources.__iadd__
__iadd__(heap, self, other) == iadd_loop(heap, self, other, 1)

RECURSIVE gen_from(_, _)
\* The generator _gen of as_pdf_object from category i on.
gen_from(self, i) ==
    IF i > Len(ResourceType)
    THEN <<>>
    ELSE LET k == ResourceType[i]
             val == __getitem__(self, k)
         IN  (IF val # <<>> THEN << <<k.value, val>> >> ELSE <<>>)
             \o gen_from(self, i + 1)

\* An export that keeps the empty categories.
as_pdf_object_unfiltered(self) ==
    [i \in DOMAIN ResourceType |->
        <<ResourceType[i].value, __getitem__(self, ResourceType[i])>>]

\* PdfResources.as_pdf_object: the keys of the generator are distinct, so
\* the DictionaryObject built from it holds its pairs in the same order.
as_pdf_object(self) == gen_from(self, 1)

\* ------------------------------------------------- PdfContent, RawContent

\* PdfContent.resources: the PdfResources object the fragment owns.
resources == 1

\* self[category][name] = value on the PdfResources object self.
setitem(heap, self, category, name, value) ==
    [heap EXCEPT ![self][lower(category.name)] = dict_setitem(@, name, value)]

\* A set_resource that leaves a name already there as it is.
set_resource_keeping(heap, category, name, value) ==
    [heap EXCEPT ![resources][lower(category.name)] =
                     dict_setdefault(@, name, value)]

\* PdfContent.set_resource
set_resource(heap, category, name, value) ==
    setitem(heap, resources, category, name, value)

\* PdfContent.import_resources
import_resources(heap, other) == __iadd__(heap, resources, other)

\* A render that drops the first byte of the buffer.
RawContent_render_tail(d) == IF d = <<>> THEN <<113>> ELSE Tail(d)

\* RawContent.render
RawContent_render(d) == d

\* writer.init_xobject_dictionary: the embeddable object built from a
\* command stream, a width, a height and a resource dictionary.
init_xobject_dictionary(command_stream, box_width, box_height, rsrc) ==
    [body |-> command_stream, width |-> box_width, height |-> box_height,
     resources |-> rsrc]

\* The calls as_form_xobject makes, in order, with what each is given and
\* what each returns.
CalledOnce(fn, args, out) == << [fn |-> fn, args |-> args, out |-> out] >>

\* An as_form_xobject that registers the object when a writer is bound.
as_form_xobject_registering(self, heap) ==
    LET command_stream == RawContent_render(self.data)
        rsrc == as_pdf_object(heap[self.resources])
        xobj == init_xobject_dictionary(command_stream, self.box.width,
                                        self.box.height, rsrc)
    IN  [value |-> xobj,
         calls |-> CalledOnce("render", <<>>, command_stream)
                   \o CalledOnce("as_pdf_object", <<self.resources>>, rsrc)
                   \o CalledOnce("init_xobject_dictionary",
                                 <<command_stream, self.box.width,
                                   self.box.height, rsrc>>, xobj)
                   \o (IF self.writer # "None"
                       THEN CalledOnce("add_object", <<xobj>>, "None")
                       ELSE <<>>)]

\* An as_form_xobject that hands the box over height first.
as_form_xobject_transposed(self, heap) ==
    LET command_stream == RawContent_render(self.data)
        rsrc == as_pdf_object(heap[self.resources])
        xobj == init_xobject_dictionary(command_stream, self.box.height,
                                        self.box.width, rsrc)
    IN  [value |-> xobj,
         calls |-> CalledOnce("render", <<>>, command_stream)
                   \o CalledOnce("as_pdf_object", <<self.resources>>, rsrc)
                   \o CalledOnce("init_xobject_dictionary",
                                 <<command_stream, self.box.height,
                                   self.box.width, rsrc>>, xobj)]

\* PdfContent.as_form_xobject on a RawContent: what it returns and the calls
\* it makes.
as_form_xobject(self, heap) ==
    LET command_stream == RawContent_render(self.data)
        rsrc == as_pdf_object(heap[self.resources])
        xobj == init_xobject_dictionary(command_stream, self.box.width,
                                        self.box.height, rsrc)
    IN  [value |-> xobj,
         calls |-> CalledOnce("render", <<>>, command_stream)
                   \o CalledOnce("as_pdf_object", <<self.resources>>, rsrc)
                   \o CalledOnce("init_xobject_dictionary",
                                 <<command_stream, self.box.width,
                                   self.box.height, rsrc>>, xobj)]

\* ------------------------------------------------------------------- state

VARIABLES
    res,         \* the heap of PdfResources objects
    data,        \* RawContent.data
    box,         \* PdfContent.box
    writer,      \* PdfContent.writer
    registered,  \* number of objects registered with the writer
    ret,         \* the last call: what it was given, returned, raised, called
    merged       \* history: the merges that succeeded, and what came after

\* The operation of the last call comes first: two calls are compared by
\* what they returned only when they are calls of one operation.
vars == <<ret.op, res, data, box, writer, registered, merged, ret>>

\* Number of entries a PdfResources object holds.
RECURSIVE size_from(_, _)
size_from(self, i) ==
    IF i > Len(ResourceType) THEN 0
    ELSE Len(__getitem__(self, ResourceType[i])) + size_from(self, i + 1)

TotalSize(heap) == size_from(heap[1], 1) + size_from(heap[2], 1)

\* The names a PdfResources object holds, per category.
NamesOf(self) ==
    [i \in Categories |-> dict_keys(__getitem__(self, ResourceType[i]))]

Call(op, args, value, exc, calls) ==
    [op |-> op, args |-> args, value |-> value, exc |-> exc, calls |-> calls]

\* History of merges: merged[<<a, b>>] is "clean" from a successful
\* a += b until b gains a name, "stale" after that, "never" before.
MergedNext(a, b) ==
    IF /\ ret'.op \in {"import_resources", "__iadd__"}
       /\ ret'.exc = NoException
       /\ ret'.args = <<a, b>>
    THEN "clean"
    ELSE IF merged[<<a, b>>] = "clean" /\ NamesOf(res'[b]) # NamesOf(res[b])
         THEN "stale"
         ELSE merged[<<a, b>>]

Pairs == { p \in Res \X Res : p[1] # p[2] }

History(track) ==
    IF track
    THEN merged' = [p \in Pairs |-> MergedNext(p[1], p[2])]
    ELSE UNCHANGED merged

InitCommon ==
    /\ res = [r \in Res |-> PdfResources_init]
    /\ writer = "None"
    /\ registered = 0
    /\ ret = Call("__init__", <<>>, "None", NoException, <<>>)
    /\ merged = [p \in Pairs |-> "never"]

\* RawContent(b"q Q", box=BoxConstraints(100, 50))
Init ==
    /\ InitCommon
    /\ data = <<113, 32, 81>>
    /\ box = [width |-> 100, height |-> 50]

\* RawContent(data, box=box) for any buffer and any box.
InitFrag ==
    /\ InitCommon
    /\ data \in Buffers
    /\ box \in Boxes

\* ----------------------------------------------------------------- actions

\* fragment.set_resource(category, name, value)
SetResource(max, track) ==
    \E c \in InputCategories, n \in Names, v \in Values :
        /\ res' = set_resource(res, ResourceType[c], n, v)
        /\ TotalSize(res') <= max
        /\ ret' = Call("set_resource", <<c, n, v>>, "None", NoException, <<>>)
        /\ UNCHANGED <<data, box, writer, registered>>
        /\ History(track)

\* other[category][name] = value on the PdfResources that stands alone
SetItem(max, track) ==
    \E c \in InputCategories, n \in Names, v \in Values :
        /\ res' = setitem(res, 2, ResourceType[c], n, v)
        /\ TotalSize(res') <= max
        /\ ret' = Call("setitem", <<c, n, v>>, "None", NoException, <<>>)
        /\ UNCHANGED <<data, box, writer, registered>>
        /\ History(track)

\* fragment.import_resources(other)
ImportResources(max, track) ==
    \E other \in Res :
        LET r == import_resources(res, other)
        IN  /\ res' = r.heap
            /\ TotalSize(res') <= max
            /\ ret' = Call("import_resources", <<resources, other>>, "None",
                           r.exc, <<>>)
            /\ UNCHANGED <<data, box, writer, registered>>
            /\ History(track)

\* self += other on the PdfResources that stands alone
IAdd(max, track) ==
    \E other \in Res :
        LET r == __iadd__(res, 2, other)
        IN  /\ res' = r.heap
            /\ TotalSize(res') <= max
            /\ ret' = Call("__iadd__", <<2, other>>, "None", r.exc, <<>>)
            /\ UNCHANGED <<data, box, writer, registered>>
            /\ History(track)

\* self.as_pdf_object() on either PdfResources
AsPdfObject ==
    \E self \in Res :
        /\ ret' = Call("as_pdf_object", <<self>>, as_pdf_object(res[self]),
                       NoException, <<>>)
        /\ UNCHANGED <<res, data, box, writer, registered, merged>>

\* The fragment as its methods see it.
Self == [data |-> data, box |-> box, writer |-> writer, resources |-> resources]

\* The calls of a trace that go to fn.
CallsTo(calls, fn) == { i \in DOMAIN calls : calls[i].fn = fn }

\* fragment.render()
Render ==
    /\ ret' = Call("render", <<>>, RawContent_render(data), NoException,
                   CalledOnce("render", <<>>, RawContent_render(data)))
    /\ UNCHANGED <<res, data, box, writer, registered, merged>>

\* fragment.as_form_xobject(); an add_object among its calls would register
\* an object with the writer.
AsFormXObject ==
    LET r == as_form_xobject(Self, res)
    IN  /\ ret' = Call("as_form_xobject", <<>>, r.value, NoException, r.calls)
        /\ registered' = registered + Cardinality(CallsTo(r.calls, "add_object"))
        /\ UNCHANGED <<res, data, box, writer, merged>>

\* fragment.set_writer(writer)
SetWriter ==
    \E w \in Writers :
        /\ writer' = w
        /\ ret' = Call("set_writer", <<w>>, "None", NoException, <<>>)
        /\ UNCHANGED <<res, data, box, registered, merged>>

\* The caller registers the form XObject it was handed with the writer.
AddObject ==
    /\ ret.op = "as_form_xobject"
    /\ writer # "None"
    /\ registered < MaxRegistered
    /\ registered' = registered + 1
    /\ ret' = Call("add_object", <<ret.value>>, "None", NoException, <<>>)
    /\ UNCHANGED <<res, data, box, writer, merged>>

Next ==
    \/ SetResource(MaxEntries, FALSE)
    \/ SetItem(MaxEntries, FALSE)
    \/ ImportResources(MaxEntries, FALSE)
    \/ IAdd(MaxEntries, FALSE)
    \/ AsPdfObject

Spec == Init /\ [][Next]_vars

NextHist ==
    \/ SetResource(MaxEntriesHist, TRUE)
    \/ SetItem(MaxEntriesHist, TRUE)
    \/ ImportResources(MaxEntriesHist, TRUE)
    \/ IAdd(MaxEntriesHist, TRUE)

SpecHist == Init /\ [][NextHist]_vars

NextFrag ==
    \/ SetResource(MaxEntriesFrag, FALSE)
    \/ SetItem(MaxEntriesFrag, FALSE)
    \/ ImportResources(MaxEntriesFrag, FALSE)
    \/ Render
    \/ AsFormXObject
    \/ SetWriter
    \/ AddObject

SpecFrag == InitFrag /\ [][NextFrag]_vars

\* ------------------------------------------------------------------ claims

IsMerge(call) == call.op \in {"import_resources", "__iadd__"}

Raised(call) == call.exc.type = "ResourceManagementError"

\* The mapping of category i in the PdfResources r of a heap.
Cat(heap, r, i) == __getitem__(heap[r], ResourceType[i])

\* The names a and b both hold in category i.
Shared(heap, a, b, i) ==
    dict_keys(Cat(heap, a, i)) \cap dict_keys(Cat(heap, b, i))

Disjoint(heap, a, b) == \A i \in Categories : Shared(heap, a, b, i) = {}

\* The first category, in enumeration order, in which a and b share a name.
FirstShared(heap, a, b) ==
    CHOOSE i \in Categories :
        /\ Shared(heap, a, b, i) # {}
        /\ \A j \in Categories : j < i => Shared(heap, a, b, j) = {}

\* The value a mapping holds for a name.
Lookup(d, k) == (CHOOSE e \in dict_entries(d) : e[1] = k)[2]

\* An error identifies x when x is among the parts of its message.
Identifies(exc, x) == \E i \in DOMAIN exc.args : exc.args[i] = x

IdentifiesCategory(exc, i) ==
    \/ Identifies(exc, ResourceType[i].value)
    \/ Identifies(exc, ResourceType[i].name)
    \/ Identifies(exc, lower(ResourceType[i].name))

\* C1: a merge of two dictionaries that share no name within any category
\* succeeds; afterwards every category of the receiver holds exactly the
\* entries it had plus those of the other, and the other is unchanged.
C1_Union ==
    [][\A a, b \in Res :
          (IsMerge(ret') /\ ret'.args = <<a, b>> /\ Disjoint(res, a, b)) =>
              /\ ret'.exc = NoException
              /\ \A i \in Categories :
                    /\ dict_entries(Cat(res', a, i)) =
                           dict_entries(Cat(res, a, i))
                               \cup dict_entries(Cat(res, b, i))
                    /\ Len(Cat(res', a, i)) =
                           Cardinality(dict_keys(Cat(res', a, i)))
              /\ res'[b] = res[b]]_vars

\* A merge has succeeded into a receiver that held entries of its own.
C1_Witness ==
    /\ IsMerge(ret)
    /\ ret.exc = NoException
    /\ ret.args = <<1, 2>>
    /\ size_from(res[2], 1) > 0
    /\ size_from(res[1], 1) > size_from(res[2], 1)

\* C2: whenever the two dictionaries share a name N in a category C, the
\* merge raises ResourceManagementError and the error identifies both C and
\* N.  The error the code raises is built from the name alone.
C2_Original ==
    [][\A a, b \in Res :
          (IsMerge(ret') /\ ret'.args = <<a, b>> /\ ~Disjoint(res, a, b)) =>
              /\ Raised(ret')
              /\ \A i \in Categories : \A n \in Shared(res, a, b, i) :
                    Identifies(ret'.exc, n) /\ IdentifiesCategory(ret'.exc, i)]_vars

\* C3: when a merge fails and C is the first category in which the two
\* dictionaries share a name, every category before C holds the union of
\* both, every category after C is as it was, and the other is unchanged.
C3_PartialMutation ==
    [][\A a, b \in Res :
          (IsMerge(ret') /\ ret'.args = <<a, b>> /\ Raised(ret')
              /\ ~Disjoint(res, a, b)) =>
              LET c == FirstShared(res, a, b)
              IN  /\ \A i \in Categories : i < c =>
                        dict_entries(Cat(res', a, i)) =
                            dict_entries(Cat(res, a, i))
                                \cup dict_entries(Cat(res, b, i))
                  /\ \A i \in Categories : i > c =>
                        Cat(res', a, i) = Cat(res, a, i)
                  /\ res'[b] = res[b]]_vars

\* A merge has failed on /N1 in Font after it merged Pattern: the receiver's
\* own value for /N1 differs from the other's, so the failure was in Font.
C3_Witness ==
    /\ IsMerge(ret)
    /\ Raised(ret)
    /\ ret.args = <<1, 2>>
    /\ Identifies(ret.exc, "/N1")
    /\ res[2].pattern = << <<"/N2", "obj1">> >>
    /\ res[2].font = << <<"/N1", "obj1">> >>
    /\ res[1].pattern = << <<"/N2", "obj1">> >>
    /\ res[1].font = << <<"/N1", "obj2">> >>

\* C4: as_pdf_object returns the namespace keys of exactly the non-empty
\* categories, in enumeration order, each with that category's mapping; a
\* dictionary with no entries exports to the empty mapping.
C4_DeterministicExport ==
    (ret.op = "as_pdf_object") =>
        LET v == ret.value
            self == res[ret.args[1]]
            nonempty == { i \in Categories : __getitem__(self, ResourceType[i]) # <<>> }
            index(key) == CHOOSE i \in Categories : ResourceType[i].value = key
        IN  /\ { v[j][1] : j \in DOMAIN v } =
                   { ResourceType[i].value : i \in nonempty }
            /\ \A j, l \in DOMAIN v : j < l => index(v[j][1]) < index(v[l][1])
            /\ \A j \in DOMAIN v :
                   v[j][2] = __getitem__(self, ResourceType[index(v[j][1])])
            /\ (size_from(self, 1) = 0 => v = <<>>)

\* A dictionary with entries in Font and Pattern only has been exported.
C4_Witness ==
    /\ ret.op = "as_pdf_object"
    /\ Len(ret.value) = 2
    /\ ret.value[1][1] = "/Pattern"
    /\ ret.value[2][1] = "/Font"
    /\ Len(ret.value[2][2]) = 2

\* C8: set_resource raises nothing; afterwards the category maps the name to
\* the value, every other name of the category and every other category of
\* the fragment's dictionary are as they were.
C8_SetResource ==
    [][\A c \in Categories, n \in Names, v \in Values :
          (ret'.op = "set_resource" /\ ret'.args = <<c, n, v>>) =>
              /\ ret'.exc = NoException
              /\ n \in dict_keys(Cat(res', resources, c))
              /\ Lookup(Cat(res', resources, c), n) = v
              /\ Len(Cat(res', resources, c)) =
                     Cardinality(dict_keys(Cat(res', resources, c)))
              /\ { e \in dict_entries(Cat(res', resources, c)) : e[1] # n } =
                     { e \in dict_entries(Cat(res, resources, c)) : e[1] # n }
              /\ \A i \in Categories \ {c} :
                     Cat(res', resources, i) = Cat(res, resources, i)]_vars

\* set_resource has just set /N1 in Font, a name that was there before /N2
\* was, while Pattern holds /N1 with another value.
C8_Witness ==
    /\ ret.op = "set_resource"
    /\ ret.args = <<6, "/N1", "obj2">>
    /\ res[resources].font = << <<"/N1", "obj2">>, <<"/N2", "obj1">> >>
    /\ res[resources].pattern = << <<"/N1", "obj1">> >>

\* C10: when a merge fails on name N in category C, the receiver's mapping of
\* C is what it was, followed by the other's entries that come before N; the
\* receiver's value for N is not replaced.
C10_PartialInCategory ==
    [][\A a, b \in Res :
          (IsMerge(ret') /\ ret'.args = <<a, b>> /\ Raised(ret')
              /\ ~Disjoint(res, a, b)) =>
              LET c == FirstShared(res, a, b)
                  j == CHOOSE l \in DOMAIN Cat(res, b, c) :
                           Identifies(ret'.exc, Cat(res, b, c)[l][1])
                  n == Cat(res, b, c)[j][1]
              IN  /\ Cat(res', a, c) =
                         Cat(res, a, c) \o SubSeq(Cat(res, b, c), 1, j - 1)
                  /\ Lookup(Cat(res', a, c), n) = Lookup(Cat(res, a, c), n)]_vars

\* A merge has failed on /N1 in Font after it inserted /N2, which the other
\* dictionary lists before /N1; the receiver keeps its own value for /N1.
C10_Witness ==
    /\ IsMerge(ret)
    /\ Raised(ret)
    /\ ret.args = <<1, 2>>
    /\ Identifies(ret.exc, "/N1")
    /\ res[2].font = << <<"/N2", "obj1">>, <<"/N1", "obj1">> >>
    /\ res[1].font = << <<"/N1", "obj2">>, <<"/N2", "obj1">> >>

\* The first non-empty category of a PdfResources, in enumeration order.
FirstNonEmpty(self) ==
    CHOOSE i \in Categories :
        /\ __getitem__(self, ResourceType[i]) # <<>>
        /\ \A j \in Categories : j < i => __getitem__(self, ResourceType[j]) = <<>>

\* A merge raises on the first entry of the other's first non-empty category
\* and changes nothing.
FailsAtOnce(b) ==
    /\ Raised(ret')
    /\ Identifies(ret'.exc, Cat(res, b, FirstNonEmpty(res[b]))[1][1])
    /\ res' = res

\* C9 as stated: a += b issued any time after a successful a += b, with b
\* holding at least one entry, raises on the first entry of b's first
\* non-empty category and leaves a as it was.
C9_Original ==
    [][\A a, b \in Res :
          (IsMerge(ret') /\ ret'.args = <<a, b>> /\ a # b
              /\ merged[<<a, b>>] # "never" /\ size_from(res[b], 1) > 0) =>
              FailsAtOnce(b)]_vars

\* C9, amended: a += b issued after a successful a += b, with no name added
\* to b in between and b holding at least one entry, raises on the first
\* entry of b's first non-empty category and leaves a as it was; merging a
\* non-empty dictionary into itself fails the same way; merging an empty
\* dictionary succeeds and changes nothing.
C9_NotIdempotent ==
    [][\A a, b \in Res :
          (IsMerge(ret') /\ ret'.args = <<a, b>>) =>
              /\ (a # b /\ merged[<<a, b>>] = "clean"
                     /\ size_from(res[b], 1) > 0) => FailsAtOnce(b)
              /\ (a = b /\ size_from(res[b], 1) > 0) => FailsAtOnce(b)
              /\ (size_from(res[b], 1) = 0) =>
                     (ret'.exc = NoException /\ res' = res)]_vars

\* The merge of a dictionary that was merged before, and gained no name
\* since, has failed; the receiver has gained a name since it was merged
\* into the other.
C9_Witness ==
    /\ IsMerge(ret)
    /\ Raised(ret)
    /\ ret.args = <<1, 2>>
    /\ merged[<<1, 2>>] = "clean"
    /\ merged[<<2, 1>>] = "stale"
    /\ size_from(res[2], 1) > 0

\* C5: as_form_xobject calls render once and hands init_xobject_dictionary
\* the bytes render returned, the width and the height of the box, and the
\* export of the fragment's resource dictionary as it is at the call.
C5_FormXObjectShape ==
    [][(ret'.op = "as_form_xobject") =>
          LET calls == ret'.calls
              rendered == CallsTo(calls, "render")
              built == CallsTo(calls, "init_xobject_dictionary")
          IN  /\ Cardinality(rendered) = 1
              /\ Cardinality(built) = 1
              /\ \A i \in rendered, j \in built :
                    /\ i < j
                    /\ calls[i].out = data
                    /\ calls[j].args =
                           << calls[i].out, box.width, box.height,
                              as_pdf_object(res[resources]) >>
                    /\ ret'.value = calls[j].out
                    /\ ret'.value.body = calls[i].out
                    /\ ret'.value.width = box.width
                    /\ ret'.value.height = box.height
                    /\ ret'.value.resources = as_pdf_object(res[resources])]_vars

\* A form XObject has been built of a fragment whose dictionary holds
\* entries in Pattern and in Font.
C5_Witness ==
    /\ ret.op = "as_form_xobject"
    /\ ret.value.body = <<113, 32, 81>>
    /\ ret.value.width = 100
    /\ ret.value.height = 50
    /\ Len(ret.value.resources) = 2
    /\ ret.value.resources[2] = <<"/Font", res[resources].font>>

\* C6: as_form_xobject registers nothing with the writer, bound or not, and
\* leaves the writer binding, the box and the resource dictionaries as they
\* were.
C6_NonRegistration ==
    [][(ret'.op = "as_form_xobject") =>
          /\ CallsTo(ret'.calls, "add_object") = {}
          /\ registered' = registered
          /\ writer' = writer
          /\ box' = box
          /\ res' = res]_vars

\* A form XObject has been built while a writer was bound that holds no
\* object yet.
C6_Witness ==
    /\ ret.op = "as_form_xobject"
    /\ writer = "writer"
    /\ registered = 0
    /\ size_from(res[resources], 1) > 0

\* C7: no operation changes the buffer of a RawContent, and every render,
\* called directly or by as_form_xobject, returns that buffer.
C7_RawPassthrough ==
    [][/\ data' = data
       /\ (ret'.op = "render") => (ret'.value = data)
       /\ (ret'.op = "as_form_xobject") =>
              \A i \in CallsTo(ret'.calls, "render") : ret'.calls[i].out = data]_vars

\* render has returned the buffer after resources were set and a form XObject
\* was built and registered.
C7_Witness ==
    /\ ret.op = "render"
    /\ ret.value = <<113, 32, 81>>
    /\ data = <<113, 32, 81>>
    /\ size_from(res[resources], 1) = 2
    /\ writer = "writer"
    /\ registered = 1

====
